---- MODULE Spec2Model ----
(***************************************************************************)
(* kafkakit-prometheus-metricsfetcher (main.go): one run of the tool.      *)
(* It parses the ZooKeeper address, queries Prometheus twice, maps the two *)
(* results to the broker and partition maps, serializes them and writes    *)
(* them to ZooKeeper (or only prints them in dry-run).                     *)
(*                                                                         *)
(* Strings that the code cuts or joins (the address, ZooKeeper paths) are  *)
(* sequences of tokens: the token "/" is the byte '/', every other token   *)
(* is a run of bytes holding no '/'.  Str gives the string itself.         *)
(* ZooKeeper and Prometheus are the environment: every call to them is one *)
(* step whose outcome is chosen among the results the client can return.   *)
(***************************************************************************)
EXTENDS Integers, Sequences, FiniteSets, TLC

VARIABLES
    pc,                     \* position of the run in main / processData / writeToZookeeper
    flZkAddr,               \* --zk-addr, a token sequence
    flDryRun,               \* --dry-run
    flBrokerIDLabel,        \* --broker-id-label
    flBrokerIDMap,          \* -broker-id-map of the README: raw label value -> broker ID
    promBroker,             \* what Prometheus answers to flBrokerStorageQuery
    promPart,               \* what Prometheus answers to flPartitionSizeQuery
    zkAddr,                 \* main: host part of the address
    zkChroot,               \* global zkChroot
    brokerMetrics,          \* *brokerStorageFree built by getBrokerFreeSpace
    partitionMapping,       \* *topicPartitionSize built by getPartitionSizes
    topicPartitionSizeData, \* processData: json.Marshal(*partitionMapping)
    brokerMetricsData,      \* processData: json.Marshal(*brokerMetrics)
    node,                   \* writeToZookeeper: its argument `path` (the node name)
    dir,                    \* writeToZookeeper: local dir
    path,                   \* writeToZookeeper: local path after line 212
    store,                  \* ZooKeeper: path -> [data, acl] for the nodes that exist
    store0,                 \* ZooKeeper as it was when the run started
    ops,                    \* the ZooKeeper calls issued so far, with their results
    calls,                  \* number of times processData was entered
    err,                    \* the error processData returned (Nil: none)
    exitCode                \* process exit status (-1 while running)

vars == <<pc, flZkAddr, flDryRun, flBrokerIDLabel, flBrokerIDMap, promBroker, promPart,
          zkAddr, zkChroot, brokerMetrics, partitionMapping, topicPartitionSizeData,
          brokerMetricsData, node, dir, path, store, store0, ops, calls, err, exitCode>>

\* ------------------------------------------------------------------ bounds
MaxChroot == 2
MaxSamples == 2
MaxAclLen == 2

RECURSIVE SeqsUpTo(_, _)
SeqsUpTo(S, n) ==
    IF n = 0 THEN {<<>>}
    ELSE LET shorter == SeqsUpTo(S, n - 1)
         IN  shorter \cup {Append(s, x) : s \in shorter, x \in S}

\* ------------------------------------------------------------------ strings
RECURSIVE Str(_)
Str(toks) == IF toks = <<>> THEN "" ELSE Head(toks) \o Str(Tail(toks))

\* strings.IndexByte(s, '/'): index (from 0) of the first '/', -1 when there is none
IndexByte(s, c) ==
    IF \E i \in 1..Len(s) : s[i] = c
    THEN (CHOOSE i \in 1..Len(s) : s[i] = c /\ \A j \in 1..(i - 1) : s[j] # c) - 1
    ELSE 0 - 1

\* main, lines 277-283: zkAddr = flZkAddr[:pos], zkChroot = flZkAddr[pos:];
\* zkChroot keeps its zero value "" when the address has no '/'
ParseAddr(addr) ==
    LET pos == IndexByte(addr, "/")
    IN  IF pos >= 0
        THEN [zkAddr |-> SubSeq(addr, 1, pos), zkChroot |-> SubSeq(addr, pos + 1, Len(addr))]
        ELSE [zkAddr |-> addr, zkChroot |-> <<>>]

\* writeToZookeeper, line 201
root == <<"/", "topicmappr">>

\* DirOf with a fault: the chroot is dropped
DirOfMut(chroot) == root

\* writeToZookeeper, lines 205-210
DirOf(chroot) == IF chroot # <<>> THEN chroot \o root ELSE root

\* PathOf with a fault: the node name is not appended
PathOfMut(d, name) == d

\* writeToZookeeper, line 212
PathOf(d, name) == d \o <<"/", name>>

\* ------------------------------------------------------------------ ACLs
PermAll == 31

\* zk.WorldACL(perms)
WorldACL(perms) == <<[perms |-> perms, scheme |-> "world", id |-> "anyone"]>>

\* WaclExists with a fault: any world entry passes, whatever its permissions
WaclExistsMut(acl) == \E i \in 1..Len(acl) : acl[i].scheme = "world"

\* writeToZookeeper, lines 233-240: some entry of acl equals WorldACL(PermAll)[0]
WaclExists(acl) == \E i \in 1..Len(acl) : acl[i] = WorldACL(PermAll)[1]

\* ------------------------------------------------------------------ mappers
\* elem.Metric[name]: the zero value "" for a label the sample does not carry
Label(metric, name) == IF name \in DOMAIN metric THEN metric[name] ELSE ""

\* getBrokerFreeSpace, lines 97-100: the loop over the vector, in order
RECURSIVE BrokerLoop(_, _)
BrokerLoop(vec, label) ==
    IF vec = <<>> THEN <<>>
    ELSE LET m    == BrokerLoop(SubSeq(vec, 1, Len(vec) - 1), label)
             elem == vec[Len(vec)]
             bid  == Label(elem.metric, label)
         IN  (bid :> elem.value) @@ m

\* getBrokerFreeSpace, lines 87-103, after a query that succeeded
BrokerFreeSpaceOf(result, label) ==
    IF result.type = "vector" THEN BrokerLoop(result.vec, label) ELSE <<>>

\* getPartitionSizes, lines 118-129: the loop over the vector, in order
RECURSIVE PartitionLoop(_)
PartitionLoop(vec) ==
    IF vec = <<>> THEN <<>>
    ELSE LET m         == PartitionLoop(SubSeq(vec, 1, Len(vec) - 1))
             elem      == vec[Len(vec)]
             topic     == Label(elem.metric, "topic")
             partition == Label(elem.metric, "partition")
             v         == IF topic \in DOMAIN m THEN m[topic] ELSE <<>>
         IN  (topic :> ((partition :> elem.value) @@ v)) @@ m

\* getPartitionSizes, lines 107-132, after a query that succeeded
PartitionSizesOf(result) ==
    IF result.type = "vector" THEN PartitionLoop(result.vec) ELSE <<>>

\* ------------------------------------------------------------------ json.Marshal
\* A sample value that is NaN or +-Inf is written as a negative number here;
\* every finite value of the model is a natural number.
IsFinite(v) == v >= 0

\* encoding/json writes the keys of a map in byte order; this is that order
\* on the label values of the model
KeyOrder == <<"", "0", "1", "10.0.0.1", "1004", "t1", "t2">>

SortedKeys(m) == SelectSeq(KeyOrder, LAMBDA k : k \in DOMAIN m)

RECURSIVE Join(_)
Join(items) ==
    IF items = <<>> THEN ""
    ELSE IF Len(items) = 1 THEN items[1]
    ELSE items[1] \o "," \o Join(Tail(items))

Quote(s) == "\"" \o s \o "\""

\* json.Marshal of map[string]struct{<field> float64}
MarshalLeaf(m, field) ==
    LET keys == SortedKeys(m)
    IN  "{" \o Join([i \in 1..Len(keys) |->
                Quote(keys[i]) \o ":{" \o Quote(field) \o ":" \o ToString(m[keys[i]]) \o "}"])
        \o "}"

\* json.Marshal(*brokerMetrics), line 143
MarshalBroker(m) == MarshalLeaf(m, "StorageFree")

\* json.Marshal(*partitionMapping), line 138
MarshalPartition(m) ==
    LET keys == SortedKeys(m)
    IN  "{" \o Join([i \in 1..Len(keys) |->
                Quote(keys[i]) \o ":" \o MarshalLeaf(m[keys[i]], "Size")])
        \o "}"

\* json.Marshal fails (UnsupportedValueError) on a value that is not finite
BrokerMarshalOK(m) == \A k \in DOMAIN m : IsFinite(m[k])
PartitionMarshalOK(m) == \A t \in DOMAIN m : \A p \in DOMAIN m[t] : IsFinite(m[t][p])

\* ------------------------------------------------------------------ inputs
Nil == "nil"

\* a model.Sample: its label set and its value
Missing == "<missing>"
Lab(name, val) == IF val = Missing THEN <<>> ELSE (name :> val)
PartSample(t, p, v) == [metric |-> Lab("topic", t) @@ Lab("partition", p), value |-> v]
BrokerSample(label, b, v) == [metric |-> Lab(label, b), value |-> v]

\* what promQuery returns: an error, or a model.Value of some type
QFail == [err |-> TRUE, type |-> "none", vec |-> <<>>]
QScalar == [err |-> FALSE, type |-> "scalar", vec |-> <<>>]
QVector(v) == [err |-> FALSE, type |-> "vector", vec |-> v]

\* -broker-id-map: not configured, or "10.0.0.1=1004"
NoIDMap == <<>>
IDMaps == {NoIDMap, ("10.0.0.1" :> "1004")}

\* ZooKeeper nodes.  The ACL entries a directory can carry: the open one,
\* world:anyone with read only (perms 1), a digest user with all permissions.
OpenACL == WorldACL(PermAll)
AclEntries ==
    { OpenACL[1],
      WorldACL(1)[1],
      [perms |-> PermAll, scheme |-> "digest", id |-> "foo:hash"] }
ACLs == SeqsUpTo(AclEntries, MaxAclLen)
OldPartitionMeta == "{\"t0\":{\"0\":{\"Size\":1}}}"
OldBrokerMetrics == "{\"9\":{\"StorageFree\":1}}"

\* the stores a run can find: no directory d, or d with some ACL and each
\* data node either absent or left there by an earlier run
StoresAt(d, acls) ==
    {<<>>} \cup
    { (d :> [data |-> "", acl |-> a])
        @@ (IF pm THEN (d \o <<"/", "partitionmeta">>) :> [data |-> OldPartitionMeta, acl |-> OpenACL]
                  ELSE <<>>)
        @@ (IF bm THEN (d \o <<"/", "brokermetrics">>) :> [data |-> OldBrokerMetrics, acl |-> OpenACL]
                  ELSE <<>>)
      : a \in acls, pm \in BOOLEAN, bm \in BOOLEAN }

InitFrom(addrs, labels, idmaps, brokerResults, partResults, stores) ==
    /\ pc = "main"
    /\ flZkAddr \in addrs
    /\ flDryRun \in BOOLEAN
    /\ flBrokerIDLabel \in labels
    /\ flBrokerIDMap \in idmaps
    /\ promBroker \in brokerResults
    /\ promPart \in partResults
    /\ zkAddr = <<>>
    /\ zkChroot = <<>>
    /\ brokerMetrics = <<>>
    /\ partitionMapping = <<>>
    /\ topicPartitionSizeData = ""
    /\ brokerMetricsData = ""
    /\ node = ""
    /\ dir = <<>>
    /\ path = <<>>
    /\ store \in stores
    /\ store0 = store
    /\ ops = <<>>
    /\ calls = 0
    /\ err = Nil
    /\ exitCode = 0 - 1

\* ------------------------------------------------------------------ actions
Exit(code) == pc' = "exit" /\ exitCode' = code

\* QueryErr with a fault: the error of the query is ignored
QueryErrMut(result) == FALSE

\* getBrokerFreeSpace, line 90, and getPartitionSizes, line 110: err != nil
QueryErr(result) == result.err

\* main, lines 272-290: an empty address is log.Fatal; otherwise split the
\* address and connect to ZooKeeper, a failed connect being log.Fatalf.
\* (The Prometheus URL and client of lines 258-270 play no part in the model.)
main ==
    /\ pc = "main"
    /\ IF flZkAddr = <<>>
       THEN Exit(1) /\ UNCHANGED <<zkAddr, zkChroot>>
       ELSE /\ zkAddr' = ParseAddr(flZkAddr).zkAddr
            /\ zkChroot' = ParseAddr(flZkAddr).zkChroot
            /\ \E connected \in BOOLEAN :
                  IF connected THEN pc' = "getBrokerFreeSpace" /\ exitCode' = exitCode
                  ELSE Exit(1)
    /\ UNCHANGED <<flZkAddr, flDryRun, flBrokerIDLabel, flBrokerIDMap, promBroker, promPart,
                   brokerMetrics, partitionMapping, topicPartitionSizeData, brokerMetricsData,
                   node, dir, path, store, store0, ops, calls, err>>

\* getBrokerFreeSpace, lines 86-104; a failed query is log.Fatalf
getBrokerFreeSpace ==
    /\ pc = "getBrokerFreeSpace"
    /\ IF QueryErr(promBroker)
       THEN Exit(1) /\ UNCHANGED brokerMetrics
       ELSE /\ brokerMetrics' = BrokerFreeSpaceOf(promBroker, flBrokerIDLabel)
            /\ pc' = "getPartitionSizes"
            /\ exitCode' = exitCode
    /\ UNCHANGED <<flZkAddr, flDryRun, flBrokerIDLabel, flBrokerIDMap, promBroker, promPart,
                   zkAddr, zkChroot, partitionMapping, topicPartitionSizeData,
                   brokerMetricsData, node, dir, path, store, store0, ops, calls, err>>

\* getPartitionSizes, lines 106-133; a failed query is log.Errorf and os.Exit(1)
getPartitionSizes ==
    /\ pc = "getPartitionSizes"
    /\ IF QueryErr(promPart)
       THEN Exit(1) /\ UNCHANGED partitionMapping
       ELSE /\ partitionMapping' = PartitionSizesOf(promPart)
            /\ pc' = "processData"
            /\ exitCode' = exitCode
    /\ UNCHANGED <<flZkAddr, flDryRun, flBrokerIDLabel, flBrokerIDMap, promBroker, promPart,
                   zkAddr, zkChroot, brokerMetrics, topicPartitionSizeData,
                   brokerMetricsData, node, dir, path, store, store0, ops, calls, err>>

\* SwitchArm with a fault: --dry-run is ignored
SwitchArmMut(dryRun) == "default"

\* processData, lines 148-149 and 187: which arm of the switch runs
SwitchArm(dryRun) == IF dryRun THEN "dry-run" ELSE "default"

\* processData, lines 135-188, up to the first call of writeToZookeeper.
\* The dry-run arm only logs; main then ends with status 0.  An error of
\* json.Marshal is returned, and main ends with log.Fatalf.
processData ==
    /\ pc = "processData"
    /\ calls' = calls + 1
    /\ IF ~PartitionMarshalOK(partitionMapping)
       THEN /\ err' = "json: unsupported value"
            /\ Exit(1)
            /\ UNCHANGED <<topicPartitionSizeData, brokerMetricsData, node>>
       ELSE /\ topicPartitionSizeData' = MarshalPartition(partitionMapping)
            /\ IF ~BrokerMarshalOK(brokerMetrics)
               THEN /\ err' = "json: unsupported value"
                    /\ Exit(1)
                    /\ UNCHANGED <<brokerMetricsData, node>>
               ELSE /\ brokerMetricsData' = MarshalBroker(brokerMetrics)
                    /\ IF SwitchArm(flDryRun) = "dry-run"
                       THEN Exit(0) /\ UNCHANGED <<node, err>>
                       ELSE /\ pc' = "writeToZookeeper"
                            /\ node' = "partitionmeta"
                            /\ UNCHANGED <<err, exitCode>>
    /\ UNCHANGED <<flZkAddr, flDryRun, flBrokerIDLabel, flBrokerIDMap, promBroker, promPart,
                   zkAddr, zkChroot, brokerMetrics, partitionMapping, dir, path,
                   store, store0, ops>>

\* DataFor with a fault: the two payloads are exchanged
DataForMut(name, pmData, bmData) == IF name = "partitionmeta" THEN bmData ELSE pmData

\* processData, lines 188 and 192: the payload passed with each node name
DataFor(name, pmData, bmData) == IF name = "partitionmeta" THEN pmData ELSE bmData

\* AfterWrite with a fault: the error of the partitionmeta write is dropped and brokermetrics is written anyway
AfterWriteMut(name, e) ==
    IF name = "partitionmeta"
    THEN [pc |-> "writeToZookeeper", node |-> "brokermetrics", err |-> Nil]
    ELSE [pc |-> "exit", node |-> name, err |-> e]

\* processData, lines 188-197: what follows the return of writeToZookeeper(name)
\* with error e
AfterWrite(name, e) ==
    IF e # Nil THEN [pc |-> "exit", node |-> name, err |-> e]
    ELSE IF name = "partitionmeta"
    THEN [pc |-> "writeToZookeeper", node |-> "brokermetrics", err |-> Nil]
    ELSE [pc |-> "exit", node |-> name, err |-> Nil]

\* writeToZookeeper returns e; main, lines 296-299, ends the process when
\* processData returns
Return(e) ==
    LET r == AfterWrite(node, e)
    IN  /\ pc' = r.pc
        /\ node' = r.node
        /\ err' = r.err
        /\ exitCode' = IF r.pc = "exit" THEN (IF r.err = Nil THEN 0 ELSE 1) ELSE exitCode

\* one entry of ops: the call, which local it was given ("dir" or "path") and
\* the value of that local, the node being written, the result
Op(op, arg, res, acl, data) ==
    [op |-> op, arg |-> arg, path |-> IF arg = "dir" THEN dir ELSE path, node |-> node,
     res |-> res, acl |-> acl, data |-> data]

\* writeToZookeeper, lines 200-212: dir and path
writeToZookeeper ==
    /\ pc = "writeToZookeeper"
    /\ dir' = DirOf(zkChroot)
    /\ path' = PathOf(DirOf(zkChroot), node)
    /\ pc' = "Delete"
    /\ UNCHANGED <<flZkAddr, flDryRun, flBrokerIDLabel, flBrokerIDMap, promBroker, promPart,
                   zkAddr, zkChroot, brokerMetrics, partitionMapping, topicPartitionSizeData,
                   brokerMetricsData, node, store, store0, ops, calls, err, exitCode>>

Remove(st, p) == [q \in DOMAIN st \ {p} |-> st[q]]

\* writeToZookeeper, line 216: err != nil && err != zk.ErrNoNode
DeleteAborts(res) == res # "ok" /\ res # "ErrNoNode"

\* writeToZookeeper, lines 214-218: zkConn.Delete(path, 0)
zkDelete ==
    /\ pc = "Delete"
    /\ \E res \in {IF path \in DOMAIN store THEN "ok" ELSE "ErrNoNode", "ErrOther"} :
          /\ store' = IF res = "ok" THEN Remove(store, path) ELSE store
          /\ ops' = Append(ops, Op("delete", "path", res, <<>>, ""))
          /\ IF DeleteAborts(res)
             THEN Return("unable to delete path")
             ELSE pc' = "GetACL" /\ UNCHANGED <<node, err, exitCode>>
    /\ UNCHANGED <<flZkAddr, flDryRun, flBrokerIDLabel, flBrokerIDMap, promBroker, promPart,
                   zkAddr, zkChroot, brokerMetrics, partitionMapping, topicPartitionSizeData,
                   brokerMetricsData, dir, path, store0, calls>>

\* writeToZookeeper, lines 220-223 and 228-244: zkConn.GetACL(dir) and the
\* check of the list it returns
zkGetACL ==
    /\ pc = "GetACL"
    /\ \E res \in {IF dir \in DOMAIN store THEN "ok" ELSE "ErrNoNode", "ErrOther"} :
          LET acl == IF res = "ok" THEN store[dir].acl ELSE <<>>
          IN  /\ ops' = Append(ops, Op("getACL", "dir", res, acl, ""))
              /\ IF res = "ErrNoNode"
                 THEN pc' = "CreateDir" /\ UNCHANGED <<node, err, exitCode>>
                 ELSE IF res # "ok"
                 THEN Return("unable to get node acl")
                 ELSE IF ~WaclExists(acl)
                 THEN Return("zookeeper node has wrong ACL")
                 ELSE pc' = "Create" /\ UNCHANGED <<node, err, exitCode>>
    /\ UNCHANGED <<flZkAddr, flDryRun, flBrokerIDLabel, flBrokerIDMap, promBroker, promPart,
                   zkAddr, zkChroot, brokerMetrics, partitionMapping, topicPartitionSizeData,
                   brokerMetricsData, dir, path, store, store0, calls>>

\* CreateDirAborts with a fault: ErrNodeExists is not tolerated
CreateDirAbortsMut(res) == res # "ok"

\* writeToZookeeper, line 225: err != nil && err != zk.ErrNodeExists
CreateDirAborts(res) == res # "ok" /\ res # "ErrNodeExists"

\* writeToZookeeper, lines 224-227: zkConn.Create(dir, nil, 0, WorldACL(PermAll)).
\* GetACL has just found no dir, so ErrNodeExists means that another client
\* created dir in between, with an ACL of its own choice.
zkCreateDir ==
    /\ pc = "CreateDir"
    /\ \E res \in {"ok", "ErrNodeExists", "ErrOther"} :
       \E theirs \in ACLs :
          /\ res # "ErrNodeExists" => theirs = WorldACL(PermAll)
          /\ store' = IF res = "ok" THEN (dir :> [data |-> "", acl |-> WorldACL(PermAll)]) @@ store
                      ELSE IF res = "ErrNodeExists" THEN (dir :> [data |-> "", acl |-> theirs]) @@ store
                      ELSE store
          /\ ops' = Append(ops, Op("create", "dir", res, WorldACL(PermAll), ""))
          /\ IF CreateDirAborts(res)
             THEN Return("unable to create node")
             ELSE pc' = "Create" /\ UNCHANGED <<node, err, exitCode>>
    /\ UNCHANGED <<flZkAddr, flDryRun, flBrokerIDLabel, flBrokerIDMap, promBroker, promPart,
                   zkAddr, zkChroot, brokerMetrics, partitionMapping, topicPartitionSizeData,
                   brokerMetricsData, dir, path, store0, calls>>

\* writeToZookeeper, lines 246-254: zkConn.Create(path, data, 0, WorldACL(PermAll))
zkCreate ==
    /\ pc = "Create"
    /\ \E res \in {IF path \in DOMAIN store THEN "ErrNodeExists" ELSE "ok", "ErrOther"} :
          LET data == DataFor(node, topicPartitionSizeData, brokerMetricsData)
          IN  /\ store' = IF res = "ok"
                          THEN (path :> [data |-> data, acl |-> WorldACL(PermAll)]) @@ store
                          ELSE store
              /\ ops' = Append(ops, Op("create", "path", res, WorldACL(PermAll), data))
              /\ IF res # "ok" THEN Return("unable to create path") ELSE Return(Nil)
    /\ UNCHANGED <<flZkAddr, flDryRun, flBrokerIDLabel, flBrokerIDMap, promBroker, promPart,
                   zkAddr, zkChroot, brokerMetrics, partitionMapping, topicPartitionSizeData,
                   brokerMetricsData, dir, path, store0, calls>>

Next ==
    \/ main
    \/ getBrokerFreeSpace
    \/ getPartitionSizes
    \/ processData
    \/ writeToZookeeper
    \/ zkDelete
    \/ zkGetACL
    \/ zkCreateDir
    \/ zkCreate

\* ------------------------------------------------------------------ specifications
\* Spec: whole runs over every store the run can find.
RunAddrs == {<<>>, <<"host:2181">>, <<"host:2181", "/", "my-chroot">>}
RunDirs == {<<"/", "topicmappr">>, <<"/", "my-chroot", "/", "topicmappr">>}
RunBrokerResults ==
    { QFail, QScalar,
      QVector(<<BrokerSample("broker_id", "1", 100)>>),
      QVector(<<BrokerSample("broker_id", "10.0.0.1", 200), BrokerSample("broker_id", "1", 0 - 1)>>) }
RunPartResults ==
    { QFail, QScalar,
      QVector(<<PartSample("t1", "0", 100), PartSample("t1", "1", 200)>>),
      QVector(<<PartSample("t1", "0", 0 - 1)>>) }
RunStores == UNION {StoresAt(d, ACLs) : d \in RunDirs}

Init == InitFrom(RunAddrs, {"broker_id"}, IDMaps, RunBrokerResults, RunPartResults, RunStores)

Spec == Init /\ [][Next]_vars

\* SpecPath: whole runs over every address of up to MaxChroot tokens after the host.
PathAddrs ==
    {<<>>} \cup {<<"host:2181">> \o s : s \in SeqsUpTo({"/", "my-chroot"}, MaxChroot)}
PathStores == StoresAt(<<"/", "topicmappr">>, {WorldACL(PermAll), WorldACL(1)})
PathBrokerResults == {QFail, QVector(<<BrokerSample("broker_id", "1", 100)>>)}
PathPartResults == {QFail, QVector(<<PartSample("t1", "0", 100)>>)}

InitPath ==
    InitFrom(PathAddrs, {"broker_id"}, {NoIDMap}, PathBrokerResults, PathPartResults, PathStores)

SpecPath == InitPath /\ [][Next]_vars

\* SpecMap: the two queries and their mappers over every vector of up to
\* MaxSamples samples.
PartSamples ==
    {PartSample(t, p, v) : t \in {"t1", "t2", Missing}, p \in {"0", "1", Missing}, v \in {100, 200}}
BrokerSamples ==
    {BrokerSample(l, b, v) : l \in {"broker_id", "instance"}, b \in {"1", "10.0.0.1", Missing},
                             v \in {100}}
MapPartResults == {QFail, QScalar} \cup {QVector(v) : v \in SeqsUpTo(PartSamples, MaxSamples)}
MapBrokerResults == {QFail, QScalar} \cup {QVector(v) : v \in SeqsUpTo(BrokerSamples, 1)}

InitMap ==
    InitFrom({<<"host:2181">>}, {"broker_id", "instance"}, {NoIDMap}, MapBrokerResults,
             MapPartResults, {<<>>})

NextMap ==
    \/ main
    \/ getBrokerFreeSpace
    \/ getPartitionSizes

SpecMap == InitMap /\ [][NextMap]_vars

\* ------------------------------------------------------------------ vocabulary of the claims
\* the chroot as the address gives it: everything from the first "/" on
RECURSIVE FromFirstSlash(_)
FromFirstSlash(s) ==
    IF s = <<>> THEN <<>>
    ELSE IF Head(s) = "/" THEN s
    ELSE FromFirstSlash(Tail(s))

\* the portion of the address after its first "/" (that "/" left out)
AfterFirstSlash(s) == IF FromFirstSlash(s) = <<>> THEN <<>> ELSE Tail(FromFirstSlash(s))

DirNode == FromFirstSlash(flZkAddr) \o <<"/", "topicmappr">>
PMNode == DirNode \o <<"/", "partitionmeta">>
BMNode == DirNode \o <<"/", "brokermetrics">>

OpenEntry == [perms |-> 31, scheme |-> "world", id |-> "anyone"]
HasOpen(acl) == \E i \in 1..Len(acl) : acl[i] = OpenEntry

Exists(st, p) == p \in DOMAIN st
\* node p is as it was when the run started
NodeSame(p) ==
    /\ Exists(store, p) <=> Exists(store0, p)
    /\ Exists(store, p) => store[p] = store0[p]

LivePublish == ~flDryRun /\ calls = 1
Finished == pc = "exit"
ErrACL == "zookeeper node has wrong ACL"
ErrJSON == "json: unsupported value"
OpIdx == 1..Len(ops)
IsDataOp(o) == o.arg = "path"
IsDirOp(o) == o.arg = "dir"
\* the operations that changed the store, in order, as <<op, path, acl>>
Changes ==
    LET done == SelectSeq(ops, LAMBDA o : o.op \in {"create", "delete"} /\ o.res = "ok")
    IN  [i \in 1..Len(done) |-> <<done[i].op, done[i].path, done[i].acl>>]
\* the create operations issued, in order
Creates ==
    LET cr == SelectSeq(ops, LAMBDA o : o.op = "create")
    IN  [i \in 1..Len(cr) |-> cr[i].path]

\* ------------------------------------------------------------------ C1
C1_Pre == LivePublish /\ Exists(store0, DirNode) /\ ~HasOpen(store0[DirNode].acl)

\* C1 as stated, in the runs where publish does return the ACL-mismatch error:
\* a live publish that finds the directory with no open ACL entry leaves both
\* data nodes as they were (each exists iff it existed, with the same payload).
C1_Original ==
    (Finished /\ C1_Pre /\ err = ErrACL) => (NodeSame(PMNode) /\ NodeSame(BMNode))

\* C1 amended: a live publish that finds the directory with no open ACL entry
\* returns an error and creates no node; the error is the ACL mismatch unless
\* serialization, the delete of partitionmeta or the getACL failed before the
\* check; brokermetrics is as it was and no operation names it; partitionmeta is
\* never rewritten, but its delete comes before the ACL check: it is absent
\* after an ACL mismatch, and as it was only when its delete failed or was
\* never reached.
C1_AclMismatch ==
    (Finished /\ C1_Pre) =>
        /\ err # Nil /\ exitCode = 1
        /\ err \in {ErrACL, ErrJSON, "unable to delete path", "unable to get node acl"}
        /\ err = ErrJSON <=> ops = <<>>
        /\ err = "unable to delete path" <=> (Len(ops) = 1 /\ ops[1].res = "ErrOther")
        /\ err = "unable to get node acl" <=> (Len(ops) = 2 /\ ops[2].res = "ErrOther")
        /\ err = ErrACL <=> (Len(ops) = 2 /\ ops[2].op = "getACL" /\ ops[2].res = "ok")
        /\ \A i \in OpIdx : ops[i].op # "create" /\ ops[i].node = "partitionmeta"
        /\ NodeSame(BMNode)
        /\ NodeSame(DirNode)
        /\ Exists(store, PMNode) => NodeSame(PMNode)
        /\ err = ErrACL => ~Exists(store, PMNode)
        /\ err \in {ErrJSON, "unable to delete path"} => NodeSame(PMNode)

C1_Witness ==
    /\ Finished /\ C1_Pre /\ err = ErrACL
    /\ Exists(store0, PMNode) /\ ~Exists(store, PMNode)
    /\ Exists(store0, BMNode) /\ NodeSame(BMNode)

\* ------------------------------------------------------------------ C2
\* the result of a store operation that makes writeToZookeeper return an error
OpFailed(o) ==
    \/ o.res = "ErrOther"
    \/ o.op = "create" /\ IsDataOp(o) /\ o.res = "ErrNodeExists"
    \/ o.op = "getACL" /\ o.res = "ok" /\ ~HasOpen(o.acl)
ErrOfOp(o) ==
    IF o.op = "delete" THEN "unable to delete path"
    ELSE IF o.op = "getACL" THEN (IF o.res = "ok" THEN ErrACL ELSE "unable to get node acl")
    ELSE IF IsDirOp(o) THEN "unable to create node"
    ELSE "unable to create path"

\* C2: every store operation for partitionmeta precedes every store operation
\* for brokermetrics, and once an operation of the partitionmeta write has
\* failed (delete, getACL, the ACL check, directory create, data-node create) no
\* operation is issued for brokermetrics and publish has returned that error.
C2_FailFastOrdered ==
    /\ \A i, j \in OpIdx :
          (ops[i].node = "partitionmeta" /\ ops[j].node = "brokermetrics") => i < j
    /\ \A i \in OpIdx :
          (ops[i].node = "partitionmeta" /\ OpFailed(ops[i])) =>
              /\ i = Len(ops)
              /\ \A j \in OpIdx : ops[j].node # "brokermetrics"
              /\ Finished /\ exitCode = 1
              /\ err = ErrOfOp(ops[i])
    /\ LivePublish /\ Finished /\ err = Nil =>
          \E j \in OpIdx : ops[j].node = "brokermetrics"

C2_Witness ==
    /\ Finished /\ ops # <<>>
    /\ ops[Len(ops)].node = "partitionmeta" /\ ops[Len(ops)].op = "create"
    /\ IsDataOp(ops[Len(ops)]) /\ ops[Len(ops)].res = "ErrOther"
    /\ Exists(store0, BMNode) /\ NodeSame(BMNode)

\* ------------------------------------------------------------------ C3
\* C3: when a live publish returns without error, both data nodes exist, each
\* holds the payload serialized in this run from its own map and carries the
\* open ACL, and the directory exists with an ACL holding the open entry.
C3_SuccessPost ==
    (Finished /\ LivePublish /\ err = Nil) =>
        /\ exitCode = 0
        /\ Exists(store, PMNode) /\ Exists(store, BMNode) /\ Exists(store, DirNode)
        /\ store[PMNode].data = MarshalPartition(partitionMapping)
        /\ store[PMNode].data = topicPartitionSizeData
        /\ store[BMNode].data = MarshalBroker(brokerMetrics)
        /\ store[BMNode].data = brokerMetricsData
        /\ store[PMNode].acl = <<OpenEntry>>
        /\ store[BMNode].acl = <<OpenEntry>>
        /\ HasOpen(store[DirNode].acl)
        /\ partitionMapping = PartitionSizesOf(promPart)
        /\ brokerMetrics = BrokerFreeSpaceOf(promBroker, flBrokerIDLabel)

C3_Witness ==
    /\ Finished /\ LivePublish /\ err = Nil
    /\ Exists(store0, PMNode) /\ store0[PMNode].data = OldPartitionMeta
    /\ Exists(store0, BMNode) /\ store0[BMNode].data = OldBrokerMetrics
    /\ store[PMNode].data = "{\"t1\":{\"0\":{\"Size\":100},\"1\":{\"Size\":200}}}"
    /\ store[BMNode].data = "{\"1\":{\"StorageFree\":100}}"
    /\ Len(store[DirNode].acl) = 2

\* ------------------------------------------------------------------ C4
\* C4: in a run with --dry-run set no delete, getACL or create is issued and
\* every node of the store is as it was, whatever the two maps are.
C4_DryRunFrame == flDryRun => (ops = <<>> /\ store = store0)

C4_Witness ==
    /\ Finished /\ flDryRun /\ calls = 1 /\ exitCode = 0
    /\ Exists(store0, PMNode) /\ Exists(store0, BMNode)
    /\ DOMAIN brokerMetrics # {} /\ DOMAIN partitionMapping # {}

\* ------------------------------------------------------------------ C5
QueryFailed == promBroker.err \/ promPart.err

\* C5: when either query fails the run ends with a non-zero status, processData
\* is never entered and no store operation is issued; processData is entered at
\* most once, and only after both queries succeeded and were mapped.
C5_NoPartialPublish ==
    /\ calls <= 1
    /\ calls = 1 =>
          /\ ~promBroker.err /\ ~promPart.err
          /\ brokerMetrics = BrokerFreeSpaceOf(promBroker, flBrokerIDLabel)
          /\ partitionMapping = PartitionSizesOf(promPart)
    /\ QueryFailed =>
          /\ calls = 0 /\ ops = <<>> /\ store = store0
          /\ pc \in {"main", "getBrokerFreeSpace", "getPartitionSizes", "exit"}
          /\ Finished => exitCode = 1
    /\ ops # <<>> => calls = 1

C5_Witness ==
    /\ Finished /\ ~promBroker.err /\ promPart.err /\ exitCode = 1
    /\ DOMAIN brokerMetrics # {} /\ ~flDryRun
    /\ Exists(store0, PMNode)

\* ------------------------------------------------------------------ C6
LabelledIdx(vec) == {i \in 1..Len(vec) : {"topic", "partition"} \subseteq DOMAIN vec[i].metric}
MapPairs(m) == UNION {{<<t, p>> : p \in DOMAIN m[t]} : t \in DOMAIN m}

\* C6: for a vector result, the partition map has exactly one entry per
\* (topic, partition) pair among the samples that carry both labels, valued by
\* the last such sample; a sample missing a label contributes no entry.
C6_Claim ==
    (pc = "processData" /\ promPart.type = "vector") =>
        LET vec == promPart.vec
            idx == LabelledIdx(vec)
            m   == partitionMapping
        IN  /\ MapPairs(m) = {<<vec[i].metric["topic"], vec[i].metric["partition"]>> : i \in idx}
            /\ \A i \in idx :
                  (\A j \in idx : j > i => vec[j].metric # vec[i].metric) =>
                      m[vec[i].metric["topic"]][vec[i].metric["partition"]] = vec[i].value

\* what the loop does instead: every sample makes an entry, a missing label
\* standing as ""
C6_AsCoded ==
    (pc = "processData" /\ promPart.type = "vector") =>
        LET vec == promPart.vec
            key(i) == <<Label(vec[i].metric, "topic"), Label(vec[i].metric, "partition")>>
            m   == partitionMapping
        IN  /\ MapPairs(m) = {key(i) : i \in 1..Len(vec)}
            /\ \A i \in 1..Len(vec) :
                  (\A j \in 1..Len(vec) : j > i => key(j) # key(i)) =>
                      m[key(i)[1]][key(i)[2]] = vec[i].value

\* ------------------------------------------------------------------ C7
TranslationMiss ==
    /\ flBrokerIDMap # NoIDMap
    /\ ~promBroker.err /\ promBroker.type = "vector"
    /\ \E i \in 1..Len(promBroker.vec) :
          Label(promBroker.vec[i].metric, flBrokerIDLabel) \notin DOMAIN flBrokerIDMap

C8_Pre == LivePublish /\ ~Exists(store0, DirNode)
C8_Sequence ==
    << <<"create", DirNode, <<OpenEntry>> >>,
       <<"create", PMNode, <<OpenEntry>> >>,
       <<"create", BMNode, <<OpenEntry>> >> >>

\* C8 as stated, in the runs where no store operation fails with an error the
\* code does not tolerate: every live publish that starts its writes with the
\* directory absent succeeds, and the creates it issues are the directory,
\* partitionmeta, brokermetrics, in that order.
C8_Original ==
    (Finished /\ C8_Pre /\ ops # <<>> /\ \A i \in OpIdx : ops[i].res # "ErrOther") =>
        (err = Nil /\ Creates = <<DirNode, PMNode, BMNode>>)

\* C8 amended: in a live publish started with the directory absent, if
\* serialization succeeds and every store operation succeeds (a delete may
\* return not-found), publish succeeds and the operations that change the
\* store are, in order, create directory with the open ACL, create
\* partitionmeta, create brokermetrics; in every such run the directory create
\* is issued at most once, "already exists" on it is tolerated (the data-node
\* create of the same write follows) and any other failure of it ends publish
\* with that error.
C8_DirAbsent ==
    (Finished /\ C8_Pre) =>
        /\ (ops # <<>> /\ \A i \in OpIdx : ops[i].res \in {"ok", "ErrNoNode"}) =>
              /\ err = Nil /\ exitCode = 0
              /\ Changes = C8_Sequence
              /\ [i \in OpIdx |-> <<ops[i].op, ops[i].path>>] =
                    << <<"delete", PMNode>>, <<"getACL", DirNode>>, <<"create", DirNode>>,
                       <<"create", PMNode>>, <<"delete", BMNode>>, <<"getACL", DirNode>>,
                       <<"create", BMNode>> >>
        /\ ops = <<>> <=> err = ErrJSON
        /\ Cardinality({i \in OpIdx : ops[i].op = "create" /\ IsDirOp(ops[i])}) <= 1
        /\ \A i \in OpIdx :
              (ops[i].op = "create" /\ IsDirOp(ops[i])) =>
                  /\ ops[i].acl = <<OpenEntry>> /\ ops[i].path = DirNode
                  /\ ops[i].res \in {"ok", "ErrNodeExists"} =>
                        /\ i < Len(ops)
                        /\ ops[i + 1].op = "create" /\ IsDataOp(ops[i + 1])
                        /\ ops[i + 1].node = ops[i].node
                  /\ ops[i].res = "ErrOther" =>
                        /\ i = Len(ops)
                        /\ err = "unable to create node" /\ exitCode = 1

C8_Witness ==
    /\ Finished /\ C8_Pre /\ err = Nil
    /\ Changes = C8_Sequence
    /\ flZkAddr = <<"host:2181", "/", "my-chroot">>
    /\ store0 # <<>>

C8_WitnessTolerated ==
    /\ Finished /\ C8_Pre /\ err = Nil
    /\ \E i \in OpIdx : ops[i].op = "create" /\ IsDirOp(ops[i]) /\ ops[i].res = "ErrNodeExists"

\* ------------------------------------------------------------------ C9
\* C9 as stated, its first clause: the chroot is the portion of the address
\* after the first "/".
C9_Original == pc # "main" => zkChroot = AfterFirstSlash(flZkAddr)

\* C9 amended: the chroot is the portion of the address from its first "/" on,
\* that "/" included (empty when the address has none); the directory is the
\* chroot followed by "/topicmappr", exactly "/topicmappr" when the address has
\* no "/"; every getACL and directory create is given the directory, every
\* data-node delete and create is given directory + "/" + node name, the same
\* directory all through one run; for "host:2181/my-chroot" the partitionmeta
\* path is "/my-chroot/topicmappr/partitionmeta".
C9_Paths ==
    pc # "main" =>
        /\ zkChroot = FromFirstSlash(flZkAddr)
        /\ zkAddr \o zkChroot = flZkAddr
        /\ (\A i \in 1..Len(flZkAddr) : flZkAddr[i] # "/") =>
              /\ zkChroot = <<>>
              /\ \A i \in OpIdx : IsDirOp(ops[i]) => Str(ops[i].path) = "/topicmappr"
        /\ \A i \in OpIdx :
              /\ ops[i].op \in {"delete", "getACL", "create"}
              /\ ops[i].op = "delete" => IsDataOp(ops[i])
              /\ ops[i].op = "getACL" => IsDirOp(ops[i])
              /\ IsDirOp(ops[i]) => Str(ops[i].path) = Str(zkChroot) \o "/topicmappr"
              /\ IsDataOp(ops[i]) =>
                    Str(ops[i].path) = Str(zkChroot) \o "/topicmappr" \o "/" \o ops[i].node
              /\ \A j \in OpIdx :
                    (IsDirOp(ops[i]) /\ IsDataOp(ops[j])) =>
                        ops[j].path = ops[i].path \o <<"/", ops[j].node>>
        /\ flZkAddr = <<"host:2181", "/", "my-chroot">> =>
              \A i \in OpIdx :
                  (IsDataOp(ops[i]) /\ ops[i].node = "partitionmeta") =>
                      Str(ops[i].path) = "/my-chroot/topicmappr/partitionmeta"

C9_Witness ==
    /\ Finished /\ err = Nil /\ LivePublish
    /\ Str(flZkAddr) = "host:2181/my-chroot"
    /\ Str(zkAddr) = "host:2181" /\ Str(zkChroot) = "/my-chroot"
    /\ \E i \in OpIdx :
          /\ ops[i].op = "create" /\ ops[i].res = "ok"
          /\ Str(ops[i].path) = "/my-chroot/topicmappr/partitionmeta"
    /\ \E i \in OpIdx : ops[i].op = "create" /\ Str(ops[i].path) = "/my-chroot/topicmappr"

\* ------------------------------------------------------------------ C10
\* C10: no operation deletes the directory or changes the ACL or payload of a
\* directory that exists; a create on the directory path is issued only right
\* after a getACL on that path returned not-found in the same write; so a
\* directory that exists when the run starts is the same at every later point.
C10_DirUntouched ==
    /\ \A i \in OpIdx :
          /\ ops[i].op \in {"delete", "getACL", "create"}
          /\ ops[i].op = "delete" => ops[i].path # DirNode
          /\ (ops[i].op = "create" /\ ops[i].path = DirNode) =>
                /\ i > 1
                /\ ops[i - 1].op = "getACL" /\ ops[i - 1].path = DirNode
                /\ ops[i - 1].res = "ErrNoNode"
                /\ ops[i - 1].node = ops[i].node
                /\ ~Exists(store0, DirNode)
    /\ Exists(store0, DirNode) => (Exists(store, DirNode) /\ store[DirNode] = store0[DirNode])
    /\ \A p \in DOMAIN store0 :
          p \notin {PMNode, BMNode} => (Exists(store, p) /\ store[p] = store0[p])

C10_Witness ==
    /\ Finished /\ LivePublish /\ err = Nil
    /\ Exists(store0, DirNode) /\ Len(store0[DirNode].acl) = 2
    /\ store[DirNode] = store0[DirNode]
    /\ Exists(store0, PMNode) /\ store[PMNode] # store0[PMNode]

====
